---- MODULE Spec2Model ----
(***************************************************************************)
(* State-machine model of the simulation core of                           *)
(* src/modules/shared/shared-circuit-simulator.js: the component classes,  *)
(* CircuitConnection and the CircuitSimulator graph / evaluation methods.  *)
(*                                                                         *)
(* JavaScript values are encoded as strings: "true", "false" and           *)
(* "undefined" (a property or array slot that was never set).  An array    *)
(* is a sequence of values; an array held where a boolean is expected (an  *)
(* INPUT value restored from an exported array) is the string "array": it  *)
(* is truthy and its elements are never read.  In a circuit description    *)
(* a value is tagged by its kind: [bool |-> v], [array |-> sequence] or,   *)
(* for an array whose elements are not tracked, [object |-> "array"].      *)
(*                                                                         *)
(* A reference to a component object is the component's current position   *)
(* in this.components (1-based; 0 is undefined / null).  Removing a        *)
(* component shifts the positions behind it, so the references kept in     *)
(* connections and in selectedComponent are renumbered by the same shift:  *)
(* they still denote the same objects.  A component's id never changes     *)
(* after construction, so a connection also carries its endpoints' ids     *)
(* (conn.from.id, conn.to.id), which stay readable even when the object    *)
(* has left the component list.                                            *)
(*                                                                         *)
(* Canvas drawing (render, draw*, setupCanvas) and the per-component       *)
(* `selected`, x, y, width, height, label fields are read only by the      *)
(* drawing code and are not part of the model.                             *)
(***************************************************************************)
EXTENDS Integers, Sequences, FiniteSets, TLC

\* ------------------------------------------------------------------ bounds

\* Graph editing: the longest component and connection lists built.
MaxComponents == 2
MaxConnections == 3
\* Simulation: the longest connection list built.
MaxSimConnections == 2
\* Wiring: the longest connection list built.
MaxWireConnections == 3

\* Sessions: the longest component and connection lists built by
\* addComponent and connectComponents.
MaxSessionComponents == 2
MaxSessionConnections == 2

\* Fan-in: the longest connection list built.
MaxFanConnections == 2
\* Truth tables: the longest list of input names passed to generate.
MaxNames == 3
\* Round trips: the longest connection list built.
MaxRoundConnections == 2
\* Animation: the most components added, the longest connection list built
\* and the largest handle requestAnimationFrame returns before the browser
\* reuses the handles of requests that are gone.
MaxAnimationComponents == 2
MaxAnimationConnections == 2
MaxHandles == 3
\* Settling: the longest connection list built.
MaxSettleConnections == 2
\* Sorting: the most components added and the longest connection list built.
MaxSortComponents == 2
MaxSortConnections == 2
\* Acyclic circuits: the longest connection list built.
MaxDagConnections == 3

\* Component ids the callers pass in the graph-editing specification.
Ids == {"a", "b"}
\* Simulation: the k-th component added gets the k-th of these ids.
SimIds == <<"a", "b", "c">>
\* Type strings passed to addComponent in the graph-editing specification.
GraphTypes == {"not", "HALF_ADDER", "LED"}
\* Type strings passed to addComponent in the simulation specification.
SimTypes == {"INPUT", "NOT", "AND", "OUTPUT"}
\* Type strings passed to addComponent in the wiring specification.
WireTypes == {"NOT", "INPUT"}
\* The boolean pin values set on a component before compute() is called.
Booleans == {"true", "false"}
\* Input names and output functions passed to generate.
Names == {"A", "B", "C", "output"}
OutputFunctions == {"value", "and", "undefined"}
\* Type strings passed to addComponent in the round-trip specification.
\* Component types added in the settling specification.
SettleTypes == {"INPUT", "NOT", "OUTPUT"}

RoundTypes == {"INPUT", "NOT"}
\* Type strings passed to addComponent in the fan-in specification.
FanTypes == {"INPUT", "NOT"}
\* Acyclic circuits: the k-th component added gets the k-th of these ids.
DagIds == <<"a", "b", "c", "d">>
\* Type strings passed to addComponent in the acyclic-circuit specification.
DagTypes == {"NOT", "OUTPUT"}
\* Type strings passed to addComponent in the session specification.
SessionTypes == {"not", "LED"}
\* toInput / fromOutput arguments passed to connectComponents.
ToInputs == {0, 1}
FromOutputs == {0}
\* toInput arguments passed to connectComponents in the wiring specification.
WireToInputs == {0}

\* Circuit descriptions passed to importCircuit: a circuit as exportCircuit
\* writes it, one whose connections name ids that are not listed, one with an
\* unrecognised type in the middle, one with a repeated id and pin arrays of
\* another length, and the empty circuit.  A `value` property that is absent
\* reads as undefined.
ImportPayloads ==
    << [components |-> << [id |-> "a", type |-> "INPUT", value |-> [bool |-> "true"]],
                          [id |-> "b", type |-> "NOT", value |-> [array |-> <<"false">>]] >>,
        connections |-> << [from |-> "a", fromOutput |-> 0,
                            to |-> "b", toInput |-> 0] >>],
       [components |-> << [id |-> "a", type |-> "not"] >>,
        connections |-> << [from |-> "a", fromOutput |-> 0,
                            to |-> "b", toInput |-> 0],
                           [from |-> "b", fromOutput |-> 0,
                            to |-> "a", toInput |-> 0],
                           [from |-> "a", fromOutput |-> 0,
                            to |-> "a", toInput |-> 1] >>],
       [components |-> << [id |-> "b", type |-> "NOT", value |-> [array |-> <<"true">>]],
                          [id |-> "a", type |-> "LED"],
                          [id |-> "a", type |-> "NOT"] >>,
        connections |-> << [from |-> "b", fromOutput |-> 0,
                            to |-> "b", toInput |-> 0] >>],
       [components |-> << [id |-> "a", type |-> "NOT",
                           value |-> [array |-> <<"true", "false">>]],
                          [id |-> "a", type |-> "NOT", value |-> [array |-> <<>>]] >>,
        connections |-> << [from |-> "a", fromOutput |-> 0,
                            to |-> "a", toInput |-> 0] >>],
       [components |-> <<>>, connections |-> <<>>] >>

\* ------------------------------------------------------------- JS values

JsBool(b) == IF b THEN "true" ELSE "false"

\* ToBoolean: of the values that occur, false and undefined are falsy; true
\* and every array (an object) are truthy.
Truthy(v) == v # "false" /\ v # "undefined"

\* a && b
JsAnd(a, b) == IF Truthy(a) THEN b ELSE a

\* a || b
JsOr(a, b) == IF Truthy(a) THEN a ELSE b

\* !a
JsNot(a) == JsBool(~Truthy(a))

\* a !== b
JsStrictNe(a, b) == JsBool(a # b)

\* arr[i] for a 0-based index i: undefined outside the array.
ArrayGet(arr, i) == IF i + 1 \in DOMAIN arr THEN arr[i + 1] ELSE "undefined"

\* arr[i] = v: a write past the end lengthens the array, leaving holes.
ArraySet(arr, i, v) ==
    LET n == IF i + 1 > Len(arr) THEN i + 1 ELSE Len(arr)
    IN  [k \in 1..n |-> IF k = i + 1 THEN v
                        ELSE IF k <= Len(arr) THEN arr[k] ELSE "undefined"]

\* String.prototype.toUpperCase on the type strings the callers pass.
ToUpperCase(s) ==
    CASE s = "and" -> "AND"
      [] s = "or" -> "OR"
      [] s = "xor" -> "XOR"
      [] s = "not" -> "NOT"
      [] s = "input" -> "INPUT"
      [] s = "output" -> "OUTPUT"
      [] OTHER -> s

\* ------------------------------------------------------------ components

\* The cases of the switch in addComponent.
KnownTypeAny(t) == TRUE

KnownType(t) == t \in {"AND", "OR", "XOR", "NOT", "INPUT", "OUTPUT"}

\* The constructors: CircuitComponent sets inputs = [], the gates set their
\* input array and output, InputComponent and OutputComponent set value.
NewComponent(t, id) ==
    CASE t \in {"AND", "OR", "XOR"} ->
            [id |-> id, type |-> t, inputs |-> <<"false", "false">>,
             output |-> "false", value |-> "undefined"]
      [] t = "NOT" ->
            [id |-> id, type |-> t, inputs |-> <<"false">>,
             output |-> "false", value |-> "undefined"]
      [] t \in {"INPUT", "OUTPUT"} ->
            [id |-> id, type |-> t, inputs |-> <<>>,
             output |-> "undefined", value |-> "false"]
      [] OTHER ->
            [id |-> id, type |-> t, inputs |-> <<>>,
             output |-> "undefined", value |-> "undefined"]

\* The rules with || in XORGate.compute.
RuleOrForXor(c) ==
    CASE c.type = "AND" -> JsAnd(ArrayGet(c.inputs, 0), ArrayGet(c.inputs, 1))
      [] c.type \in {"OR", "XOR"} ->
            JsOr(ArrayGet(c.inputs, 0), ArrayGet(c.inputs, 1))
      [] c.type = "NOT" -> JsNot(ArrayGet(c.inputs, 0))
      [] OTHER -> c.value

\* The value compute() stores in this.output (gates) or returns (I/O pegs).
Rule(c) ==
    CASE c.type = "AND" -> JsAnd(ArrayGet(c.inputs, 0), ArrayGet(c.inputs, 1))
      [] c.type = "OR" -> JsOr(ArrayGet(c.inputs, 0), ArrayGet(c.inputs, 1))
      [] c.type = "XOR" -> JsStrictNe(ArrayGet(c.inputs, 0), ArrayGet(c.inputs, 1))
      [] c.type = "NOT" -> JsNot(ArrayGet(c.inputs, 0))
      [] OTHER -> c.value

IsGate(c) == c.type \in {"AND", "OR", "XOR", "NOT"}

\* compute(): the component afterwards.
ComputeComp(c) == IF IsGate(c) THEN [c EXCEPT !.output = Rule(c)] ELSE c

\* compute(): the value returned.
ComputeRet(c) == Rule(c)

\* InputComponent.toggle(): the component afterwards.
ToggleComp(c) == [c EXCEPT !.value = JsNot(c.value)]

\* OutputComponent.setValue(value)
SetValue(c, v) == [c EXCEPT !.value = v]

\* ToNumber of a boolean, as the arithmetic of Multiplexer4to1.compute
\* applies it.
ToNumber(v) == IF v = "true" THEN 1 ELSE 0

\* new HalfAdder(id)
NewHalfAdder(id) ==
    [id |-> id, type |-> "HALF_ADDER", inputs |-> <<"false", "false">>,
     outputs |-> <<"false", "false">>]

\* HalfAdder.compute(): the object afterwards; this.outputs is returned.
HalfAdderCompute(c) ==
    LET a == ArrayGet(c.inputs, 0)
        b == ArrayGet(c.inputs, 1)
        sum == ArraySet(c.outputs, 0, JsStrictNe(a, b))
    IN  [c EXCEPT !.outputs = ArraySet(sum, 1, JsAnd(a, b))]

\* new FullAdder(id)
NewFullAdder(id) ==
    [id |-> id, type |-> "FULL_ADDER",
     inputs |-> <<"false", "false", "false">>,
     outputs |-> <<"false", "false">>]

\* FullAdder.compute() with the carry of a half adder.
FullAdderComputeHalfCarry(c) ==
    LET a == ArrayGet(c.inputs, 0)
        b == ArrayGet(c.inputs, 1)
        cin == ArrayGet(c.inputs, 2)
        sum == ArraySet(c.outputs, 0, JsStrictNe(JsStrictNe(a, b), cin))
    IN  [c EXCEPT !.outputs = ArraySet(sum, 1, JsAnd(a, b))]

\* FullAdder.compute(): the object afterwards; this.outputs is returned.
FullAdderCompute(c) ==
    LET a == ArrayGet(c.inputs, 0)
        b == ArrayGet(c.inputs, 1)
        cin == ArrayGet(c.inputs, 2)
        sum == ArraySet(c.outputs, 0, JsStrictNe(JsStrictNe(a, b), cin))
    IN  [c EXCEPT !.outputs =
            ArraySet(sum, 1,
                     JsOr(JsAnd(a, b), JsAnd(cin, JsStrictNe(a, b))))]

\* new Multiplexer4to1(id)
NewMultiplexer4to1(id) ==
    [id |-> id, type |-> "MUX_4TO1",
     dataInputs |-> <<"false", "false", "false", "false">>,
     selectInputs |-> <<"false", "false">>, output |-> "false"]

\* The selectValue of Multiplexer4to1.compute with the select pins exchanged.
SelectValueSwapped(c) ==
    ToNumber(ArrayGet(c.selectInputs, 0)) * 2
        + ToNumber(ArrayGet(c.selectInputs, 1))

\* The selectValue of Multiplexer4to1.compute.
SelectValue(c) ==
    ToNumber(ArrayGet(c.selectInputs, 1)) * 2
        + ToNumber(ArrayGet(c.selectInputs, 0))

\* Multiplexer4to1.compute(): the object afterwards; this.output is returned.
Multiplexer4to1Compute(c) ==
    [c EXCEPT !.output = ArrayGet(c.dataInputs, SelectValue(c))]

\* ----------------------------------------------------------- truth tables

\* i >> k for 0 <= i < 2^31 and 0 <= k < 32.
ShiftRight(i, k) == i \div (2 ^ k)

\* x & 1 for x >= 0.
AndOne(x) == x % 2

\* obj[key] = v on a plain object: the property is added or overwritten.
PropertySet(obj, key, v) ==
    [n \in DOMAIN obj \cup {key} |-> IF n = key THEN v ELSE obj[n]]

\* The empty object {}.
EmptyObject == [n \in {} |-> 0]

\* The bit of row i given to the name at `index`, taken from the low end.
InputBitLowFirst(i, numInputs, index) == AndOne(ShiftRight(i, index))

\* (i >> (numInputs - 1 - index)) & 1
InputBit(i, numInputs, index) ==
    AndOne(ShiftRight(i, numInputs - 1 - index))

\* inputs.forEach((inputName, index) => { row[inputName] = ... }) from
\* `index` on.
RECURSIVE FillRow(_, _, _, _)
FillRow(inputs, i, index, row) ==
    IF index >= Len(inputs)
    THEN row
    ELSE FillRow(inputs, i, index + 1,
                 PropertySet(row, inputs[index + 1],
                             InputBit(i, Len(inputs), index)))

\* The output functions the callers pass: "value" is
\* (...v) => v.reduce((x, y) => 2 * x + y, 0), "and" is
\* (...v) => v.reduce((x, y) => x & y, 1); "undefined" is no function.
RECURSIVE Apply(_, _)
Apply(outputFunction, inputValues) ==
    IF inputValues = <<>>
    THEN IF outputFunction = "value" THEN 0 ELSE 1
    ELSE LET n == Len(inputValues)
             x == Apply(outputFunction, SubSeq(inputValues, 1, n - 1))
             y == inputValues[n]
         IN  IF outputFunction = "value" THEN 2 * x + y ELSE x * y

\* The body of the for loop of generate: row i.
Row(inputs, outputFunction, i) ==
    LET row == FillRow(inputs, i, 0, EmptyObject)
    IN  IF outputFunction # "undefined"
        THEN LET inputValues == [k \in 1..Len(inputs) |-> row[inputs[k]]]
             IN  PropertySet(row, "output", Apply(outputFunction, inputValues))
        ELSE row

\* TruthTableGenerator.generate(inputs, outputFunction): the table returned.
Generate(inputs, outputFunction) ==
    LET numRows == 2 ^ Len(inputs)
    IN  [r \in 1..numRows |-> Row(inputs, outputFunction, r - 1)]

\* ----------------------------------------------------------------- state

VARIABLES
    components,         \* this.components: the component objects, in insertion order
    connections,        \* this.connections: the connection objects, in insertion order
    selectedComponent,  \* this.selectedComponent: a component reference, 0 for null
    lastCall,           \* the last public method called and how it ended
    isSimulating,       \* this.isSimulating
    animationFrame,     \* this.animationFrame: a request handle, 0 for null
    pendingFrames,      \* the handles whose callback the browser has yet to run
    sorting             \* the topologicalSort() call in progress, if any

\* The animation fields and the sort in progress.
runVars == <<isSimulating, animationFrame, pendingFrames, sorting>>

vars == <<components, connections, selectedComponent, lastCall, runVars>>

Call(op, result) == [op |-> op, result |-> result]

\* No topologicalSort() call is in progress.
NotSorting ==
    [active |-> FALSE, visited |-> {}, result |-> <<>>, stack |-> <<>>,
     next |-> 0]

\* The state the constructor leaves.
Init ==
    /\ components = <<>>
    /\ connections = <<>>
    /\ selectedComponent = 0
    /\ lastCall = Call("constructor", "returned")
    /\ isSimulating = FALSE
    /\ animationFrame = 0
    /\ pendingFrames = {}
    /\ sorting = NotSorting

\* this.components.findIndex(c => c.id === id) + 1, and the reference that
\* this.components.find(c => c.id === id) returns: the first match, 0 if none.
FindIndex(comps, id) ==
    IF \E i \in 1..Len(comps) : comps[i].id = id
    THEN CHOOSE i \in 1..Len(comps) :
            /\ comps[i].id = id
            /\ \A j \in 1..(i - 1) : comps[j].id # id
    ELSE 0

\* component.id read through a reference; the id of `undefined` is not
\* readable and is written "undefined".
IdOf(comps, ref) == IF ref \in 1..Len(comps) THEN comps[ref].id ELSE "undefined"

\* new CircuitConnection(fromComponent, fromOutput, toComponent, toInput)
NewConnection(comps, from, fromOutput, to, toInput) ==
    [from |-> from, fromId |-> IdOf(comps, from), fromOutput |-> fromOutput,
     to |-> to, toId |-> IdOf(comps, to), toInput |-> toInput,
     value |-> "false"]

\* ----------------------------------------------------- graph operations

\* addComponent(type, id, x, y, options): an unrecognised type throws before
\* anything is pushed.
AddComponent(type, id) ==
    LET t == ToUpperCase(type)
    IN  IF KnownType(t)
        THEN /\ components' = Append(components, NewComponent(t, id))
             /\ lastCall' = Call("addComponent", "returned")
             /\ UNCHANGED <<connections, selectedComponent, runVars>>
        ELSE /\ lastCall' = Call("addComponent", "threw")
             /\ UNCHANGED <<components, connections, selectedComponent, runVars>>

\* The reference `ref` after this.components.splice(index, 1).
Shift(ref, index) ==
    IF ref > index THEN ref - 1 ELSE IF ref = index THEN 0 ELSE ref

ShiftConnection(conn, index) ==
    [conn EXCEPT !.from = Shift(conn.from, index), !.to = Shift(conn.to, index)]

\* The filter predicate of removeComponent.
KeepConnectionFromOnly(conn, id) == conn.fromId # id

KeepConnection(conn, id) == conn.fromId # id /\ conn.toId # id

\* The connection list removeComponent leaves when the component at `index` goes.
FilterConnections(conns, id, index) ==
    LET kept == SelectSeq(conns, LAMBDA conn : KeepConnection(conn, id))
    IN  [k \in 1..Len(kept) |-> ShiftConnection(kept[k], index)]

\* The component list after splice(index, 1).
Splice(comps, index) ==
    [k \in 1..(Len(comps) - 1) |-> IF k < index THEN comps[k] ELSE comps[k + 1]]

\* removeComponent(id)
RemoveComponent(id) ==
    LET index == FindIndex(components, id)
    IN  /\ lastCall' = Call("removeComponent", "returned")
        /\ UNCHANGED runVars
        /\ IF index # 0
           THEN /\ connections' = FilterConnections(connections, id, index)
                /\ components' = Splice(components, index)
                /\ selectedComponent' =
                      IF selectedComponent # 0
                         /\ IdOf(components, selectedComponent) = id
                      THEN 0
                      ELSE Shift(selectedComponent, index)
           ELSE UNCHANGED <<components, connections, selectedComponent>>

\* The test `fromComponent && toComponent` of connectComponents.
BothFoundEither(from, to) == from # 0 \/ to # 0

BothFound(from, to) == from # 0 /\ to # 0

\* connectComponents(fromId, fromOutput, toId, toInput)
ConnectComponents(fromId, fromOutput, toId, toInput) ==
    LET from == FindIndex(components, fromId)
        to == FindIndex(components, toId)
    IN  IF BothFound(from, to)
        THEN /\ connections' = Append(connections,
                    NewConnection(components, from, fromOutput, to, toInput))
             /\ lastCall' = Call("connectComponents", "returned")
             /\ UNCHANGED <<components, selectedComponent, runVars>>
        ELSE /\ lastCall' = Call("connectComponents", "null")
             /\ UNCHANGED <<components, connections, selectedComponent, runVars>>

\* selectComponent(component), with a component of the graph or null.
SelectComponent(ref) ==
    /\ selectedComponent' = ref
    /\ lastCall' = Call("selectComponent", "returned")
    /\ UNCHANGED <<components, connections, runVars>>

\* The assignments of stopAnimation() without cancelAnimationFrame.
StoppedNotCancelled ==
    /\ isSimulating' = FALSE
    /\ animationFrame' = 0
    /\ UNCHANGED <<pendingFrames, sorting>>

\* The assignments of stopAnimation(): the pending request, if any, is
\* cancelled.
Stopped ==
    /\ isSimulating' = FALSE
    /\ pendingFrames' = pendingFrames \ {animationFrame}
    /\ animationFrame' = 0
    /\ UNCHANGED sorting

\* clear() without the reset of this.connections.
ClearComponentsOnly ==
    /\ components' = <<>>
    /\ selectedComponent' = 0
    /\ lastCall' = Call("clear", "returned")
    /\ Stopped
    /\ UNCHANGED connections

\* clear()
Clear ==
    /\ components' = <<>>
    /\ connections' = <<>>
    /\ selectedComponent' = 0
    /\ Stopped
    /\ lastCall' = Call("clear", "returned")

\* ------------------------------------------------------------ evaluation

\* topologicalSort(): visit(component) with the visited set (of ids) and the
\* result list (of references) threaded through as `st`.
RECURSIVE Visit(_, _, _, _)
RECURSIVE VisitEach(_, _, _, _, _)

Visit(comps, conns, ref, st) ==
    IF IdOf(comps, ref) \in st.visited
    THEN st
    ELSE LET entered == [st EXCEPT !.visited = @ \cup {IdOf(comps, ref)}]
             feeding == SelectSeq(conns,
                            LAMBDA conn : conn.toId = IdOf(comps, ref))
             after == VisitEach(comps, conns, feeding, 1, entered)
         IN  [after EXCEPT !.result = Append(@, ref)]

\* .forEach(conn => visit(conn.from)) over the filtered connections.
VisitEach(comps, conns, feeding, k, st) ==
    IF k > Len(feeding)
    THEN st
    ELSE VisitEach(comps, conns, feeding, k + 1,
                   Visit(comps, conns, feeding[k].from, st))

\* this.components.forEach(component => visit(component))
RECURSIVE VisitComponents(_, _, _, _)
VisitComponents(comps, conns, k, st) ==
    IF k > Len(comps)
    THEN st
    ELSE VisitComponents(comps, conns, k + 1, Visit(comps, conns, k, st))

TopologicalSortInsertionOrder(comps, conns) == [k \in 1..Len(comps) |-> k]

TopologicalSort(comps, conns) ==
    VisitComponents(comps, conns, 1, [visited |-> {}, result |-> <<>>]).result

\* sorted.forEach(component => { if (component.type !== 'INPUT') component.compute(); })
RECURSIVE ComputeSorted(_, _, _)
ComputeSorted(comps, sorted, k) ==
    IF k > Len(sorted)
    THEN comps
    ELSE LET ref == sorted[k]
         IN  ComputeSorted(
                 IF comps[ref].type # "INPUT"
                 THEN [comps EXCEPT ![ref] = ComputeComp(comps[ref])]
                 ELSE comps,
                 sorted, k + 1)

\* The body of the connection loop with setValue called on every target that
\* is not a gate.
UpdateConnectionSetValue(st, k) ==
    LET conn == st.connections[k]
        v == ComputeRet(st.components[conn.from])
        computed == [st.components EXCEPT ![conn.from] = ComputeComp(@)]
        written ==
            IF IsGate(computed[conn.to])
            THEN [computed EXCEPT ![conn.to].inputs = ArraySet(@, conn.toInput, v)]
            ELSE [computed EXCEPT ![conn.to] = SetValue(@, v)]
    IN  [components |-> written,
         connections |-> [st.connections EXCEPT ![k].value = v]]

\* The body of the connection loop reading the output the source has stored,
\* without connection.from.compute().
UpdateConnectionStoredOutput(st, k) ==
    LET conn == st.connections[k]
        from == st.components[conn.from]
        v == IF IsGate(from) THEN from.output ELSE from.value
        written ==
            IF st.components[conn.to].type # "OUTPUT"
            THEN [st.components EXCEPT
                      ![conn.to].inputs = ArraySet(@, conn.toInput, v)]
            ELSE [st.components EXCEPT ![conn.to] = SetValue(@, v)]
    IN  [components |-> written,
         connections |-> [st.connections EXCEPT ![k].value = v]]

\* The body of this.connections.forEach(connection => ...) for connection k:
\* connection.from.compute() recomputes the source, its result is cached in
\* the connection and written into the target.
UpdateConnection(st, k) ==
    LET conn == st.connections[k]
        v == ComputeRet(st.components[conn.from])
        computed == [st.components EXCEPT ![conn.from] = ComputeComp(@)]
        written ==
            IF computed[conn.to].type # "OUTPUT"
            THEN [computed EXCEPT ![conn.to].inputs = ArraySet(@, conn.toInput, v)]
            ELSE [computed EXCEPT ![conn.to] = SetValue(@, v)]
    IN  [components |-> written,
         connections |-> [st.connections EXCEPT ![k].value = v]]

\* The loop run from the last connection to connection k.
RECURSIVE UpdateConnectionsReversed(_, _)
UpdateConnectionsReversed(st, k) ==
    IF k > Len(st.connections)
    THEN st
    ELSE UpdateConnection(UpdateConnectionsReversed(st, k + 1), k)

RECURSIVE UpdateConnections(_, _)
UpdateConnections(st, k) ==
    IF k > Len(st.connections)
    THEN st
    ELSE UpdateConnections(UpdateConnection(st, k), k + 1)

\* simulate(): the components and connections it leaves.
SimulateResult(comps, conns) ==
    LET sorted == TopologicalSort(comps, conns)
        computed == ComputeSorted(comps, sorted, 1)
    IN  UpdateConnections([components |-> computed, connections |-> conns], 1)

\* simulate()
Simulate ==
    LET after == SimulateResult(components, connections)
    IN  /\ components' = after.components
        /\ connections' = after.connections
        /\ lastCall' = Call("simulate", "returned")
        /\ UNCHANGED <<selectedComponent, runVars>>

\* toggle() on the INPUT component `ref`.
Toggle(ref) ==
    /\ components[ref].type = "INPUT"
    /\ components' = [components EXCEPT ![ref] = ToggleComp(@)]
    /\ lastCall' = Call("toggle", ToggleComp(components[ref]).value)
    /\ UNCHANGED <<connections, selectedComponent, runVars>>

\* The tagged value v of a circuit description as component.value holds it.
AsValue(v) == IF "bool" \in DOMAIN v THEN v.bool ELSE "array"

\* The tagged value v of a circuit description as component.inputs holds it.
AsInputs(v) ==
    IF "array" \in DOMAIN v THEN v.array
    ELSE IF "bool" \in DOMAIN v THEN v.bool
    ELSE v.object

\* c.value || c.inputs as a circuit description holds it (INPUT, gates).
ExportValue(c) ==
    IF Truthy(c.value)
    THEN IF c.value = "array" THEN [object |-> "array"] ELSE [bool |-> c.value]
    ELSE [array |-> c.inputs]

\* The body of circuitData.components.forEach(compData => ...) after
\* addComponent has returned `component`.
RestoreState(component, compData) ==
    IF "value" \notin DOMAIN compData
    THEN component
    ELSE IF component.type = "INPUT"
         THEN [component EXCEPT !.value = AsValue(compData.value)]
         ELSE [component EXCEPT !.inputs = AsInputs(compData.value)]

\* circuitData.components.forEach(...): the component list built from entry k
\* on, and whether addComponent threw on the way (the loop stops there).
RECURSIVE ImportComponents(_, _, _)
ImportComponents(list, k, comps) ==
    IF k > Len(list)
    THEN [components |-> comps, threw |-> FALSE]
    ELSE LET t == ToUpperCase(list[k].type)
         IN  IF KnownType(t)
             THEN ImportComponents(list, k + 1,
                      Append(comps,
                             RestoreState(NewComponent(t, list[k].id), list[k])))
             ELSE [components |-> comps, threw |-> TRUE]

\* circuitData.connections.forEach(connData => this.connectComponents(...))
RECURSIVE ImportConnections(_, _, _, _)
ImportConnections(list, k, comps, conns) ==
    IF k > Len(list)
    THEN conns
    ELSE LET from == FindIndex(comps, list[k].from)
             to == FindIndex(comps, list[k].to)
         IN  ImportConnections(list, k + 1, comps,
                 IF BothFound(from, to)
                 THEN Append(conns, NewConnection(comps, from,
                                 list[k].fromOutput, to, list[k].toInput))
                 ELSE conns)

\* importCircuit(circuitData): clear(), then the two loops; an Error thrown
\* by addComponent leaves the components created before it and no connection.
ImportCircuit(circuitData) ==
    LET built == ImportComponents(circuitData.components, 1, <<>>)
    IN  /\ components' = built.components
        /\ connections' =
              IF built.threw
              THEN <<>>
              ELSE ImportConnections(circuitData.connections, 1,
                                     built.components, <<>>)
        /\ selectedComponent' = 0
        /\ Stopped
        /\ lastCall' = Call("importCircuit",
                            IF built.threw THEN "threw" ELSE "returned")

\* One entry of the components list of exportCircuit (x, y and label are
\* drawing fields).
ExportComponent(c) ==
    [id |-> c.id, type |-> c.type, value |-> ExportValue(c)]

\* One entry of the connections list of exportCircuit.
ExportConnection(conn) ==
    [from |-> conn.fromId, fromOutput |-> conn.fromOutput,
     to |-> conn.toId, toInput |-> conn.toInput]

\* The object exportCircuit() returns.
ExportData(comps, conns) ==
    [components |-> [k \in 1..Len(comps) |-> ExportComponent(comps[k])],
     connections |-> [k \in 1..Len(conns) |-> ExportConnection(conns[k])]]

\* exportCircuit()
ExportCircuit ==
    /\ lastCall' = Call("exportCircuit", ExportData(components, connections))
    /\ UNCHANGED <<components, connections, selectedComponent, runVars>>

\* ---------------------------------------------------------- animation

\* The handle requestAnimationFrame returns: a positive integer that names
\* no request still pending and is not the handle the simulator holds.
FreshHandles(pending) == (1..MaxHandles) \ (pending \cup {animationFrame})

\* animate() past its isSimulating test without the requestAnimationFrame
\* call: simulate() and render() only.
AnimateWithoutRequest(pending) ==
    LET after == SimulateResult(components, connections)
    IN  /\ components' = after.components
        /\ connections' = after.connections
        /\ pendingFrames' = pending
        /\ UNCHANGED animationFrame

\* animate() past its isSimulating test: simulate(), render() and
\* this.animationFrame = requestAnimationFrame(animate), with `pending` the
\* requests pending when it runs.
Animate(pending) ==
    LET after == SimulateResult(components, connections)
    IN  /\ components' = after.components
        /\ connections' = after.connections
        /\ \E handle \in FreshHandles(pending) :
              /\ \A other \in FreshHandles(pending) : handle <= other
              /\ animationFrame' = handle
              /\ pendingFrames' = pending \cup {handle}

\* startAnimation()
StartAnimation ==
    /\ lastCall' = Call("startAnimation", "returned")
    /\ UNCHANGED <<selectedComponent, sorting>>
    /\ IF isSimulating
       THEN UNCHANGED <<components, connections, isSimulating,
                        animationFrame, pendingFrames>>
       ELSE /\ isSimulating' = TRUE
            /\ Animate(pendingFrames)

\* stopAnimation()
StopAnimation ==
    /\ Stopped
    /\ lastCall' = Call("stopAnimation", "returned")
    /\ UNCHANGED <<components, connections, selectedComponent>>

\* The browser runs the pending request `handle`: animate() is called, and
\* the request is no longer pending.
AnimationFrame(handle) ==
    /\ handle \in pendingFrames
    /\ UNCHANGED <<selectedComponent, isSimulating, sorting>>
    /\ IF ~isSimulating
       THEN /\ pendingFrames' = pendingFrames \ {handle}
            /\ lastCall' = Call("animate", "returned")
            /\ UNCHANGED <<components, connections, animationFrame>>
       ELSE /\ Animate(pendingFrames \ {handle})
            /\ lastCall' = Call("animate", "simulated")

\* ------------------------------------------- topologicalSort step by step

\* topologicalSort() as the interpreter runs it, one call of visit or one
\* return at a time. `sorting.stack` holds the active calls of visit, each
\* with its component, the sources of the filtered connections and the
\* position its forEach has reached; `sorting.next` is the position of the
\* outer this.components.forEach.

\* The sources of the connections into component `ref`:
\* this.connections.filter(conn => conn.to.id === component.id), conn.from.
FeedingSources(ref) ==
    LET feeding == SelectSeq(connections,
                       LAMBDA conn : conn.toId = IdOf(components, ref))
    IN  [k \in 1..Len(feeding) |-> feeding[k].from]

\* visit(component) entered without visited.add(component.id).
VisitEntryUnmarked(s, ref) ==
    IF IdOf(components, ref) \in s.visited
    THEN s
    ELSE [s EXCEPT !.stack = Append(@, [ref |-> ref,
                                        feeding |-> FeedingSources(ref),
                                        k |-> 1])]

\* visit(component) entered: it returns at once when the id is in visited,
\* and otherwise adds the id and starts on the filtered connections.
VisitEntry(s, ref) ==
    IF IdOf(components, ref) \in s.visited
    THEN s
    ELSE [s EXCEPT !.visited = @ \cup {IdOf(components, ref)},
                   !.stack = Append(@, [ref |-> ref,
                                        feeding |-> FeedingSources(ref),
                                        k |-> 1])]

\* topologicalSort() is called: visited and result are created empty.
StartSort ==
    /\ ~sorting.active
    /\ sorting' = [active |-> TRUE, visited |-> {}, result |-> <<>>,
                   stack |-> <<>>, next |-> 1]
    /\ UNCHANGED <<components, connections, selectedComponent, lastCall,
                   isSimulating, animationFrame, pendingFrames>>

\* The next step of the running topologicalSort(): the innermost visit
\* calls visit on its next source or pushes its component and returns; with
\* no visit active the outer forEach calls visit on the next component or,
\* at its end, topologicalSort returns result.
SortStep ==
    /\ sorting.active
    /\ UNCHANGED <<selectedComponent, isSimulating, animationFrame,
                   pendingFrames>>
    /\ IF sorting.stack # <<>>
       THEN LET depth == Len(sorting.stack)
                top == sorting.stack[depth]
            IN  /\ sorting' =
                      IF top.k > Len(top.feeding)
                      THEN [sorting EXCEPT
                               !.result = Append(@, top.ref),
                               !.stack = SubSeq(@, 1, depth - 1)]
                      ELSE VisitEntry(
                               [sorting EXCEPT !.stack[depth].k = @ + 1],
                               top.feeding[top.k])
                /\ UNCHANGED <<components, connections, lastCall>>
       ELSE IF sorting.next <= Len(components)
       THEN /\ sorting' = VisitEntry([sorting EXCEPT !.next = @ + 1],
                                     sorting.next)
            /\ UNCHANGED <<components, connections, lastCall>>
       ELSE /\ sorting' = NotSorting
            /\ lastCall' = Call("topologicalSort", sorting.result)
            /\ UNCHANGED <<components, connections>>

\* -------------------------------------------------- templates and clicks

\* The addComponent and connectComponents calls of
\* CircuitTemplates.halfAdderCircuit, in order.
HalfAdderComponents ==
    << [id |-> "input_a", type |-> "INPUT"],
       [id |-> "input_b", type |-> "INPUT"],
       [id |-> "xor_1", type |-> "XOR"],
       [id |-> "and_1", type |-> "AND"],
       [id |-> "sum_out", type |-> "OUTPUT"],
       [id |-> "carry_out", type |-> "OUTPUT"] >>

Wire(from, fromOutput, to, toInput) ==
    [from |-> from, fromOutput |-> fromOutput, to |-> to, toInput |-> toInput]

HalfAdderConnections ==
    << Wire("input_a", 0, "xor_1", 0), Wire("input_b", 0, "xor_1", 1),
       Wire("input_a", 0, "and_1", 0), Wire("input_b", 0, "and_1", 1),
       Wire("xor_1", 0, "sum_out", 0), Wire("and_1", 0, "carry_out", 0) >>

\* The addComponent calls of CircuitTemplates.fullAdderCircuit, in order.
FullAdderComponents ==
    << [id |-> "input_a", type |-> "INPUT"],
       [id |-> "input_b", type |-> "INPUT"],
       [id |-> "input_cin", type |-> "INPUT"],
       [id |-> "fa_1", type |-> "FULL_ADDER"],
       [id |-> "sum_out", type |-> "OUTPUT"],
       [id |-> "carry_out", type |-> "OUTPUT"] >>

\* The addComponent and connectComponents calls of
\* CircuitTemplates.mux2to1Circuit, in order.
Mux2to1Components ==
    << [id |-> "input_d0", type |-> "INPUT"],
       [id |-> "input_d1", type |-> "INPUT"],
       [id |-> "input_s", type |-> "INPUT"],
       [id |-> "not_s", type |-> "NOT"],
       [id |-> "and_1", type |-> "AND"],
       [id |-> "and_2", type |-> "AND"],
       [id |-> "or_1", type |-> "OR"],
       [id |-> "output_y", type |-> "OUTPUT"] >>

Mux2to1Connections ==
    << Wire("input_s", 0, "not_s", 0), Wire("input_d0", 0, "and_1", 0),
       Wire("not_s", 0, "and_1", 1), Wire("input_d1", 0, "and_2", 0),
       Wire("input_s", 0, "and_2", 1), Wire("and_1", 0, "or_1", 0),
       Wire("and_2", 0, "or_1", 1), Wire("or_1", 0, "output_y", 0) >>

\* The body of a CircuitTemplates method: clear(), the addComponent calls,
\* the connectComponents calls and, where the method has one, simulate().
\* An Error thrown by addComponent ends the method there.
Template(name, componentList, connectionList, simulates) ==
    LET built == ImportComponents(componentList, 1, <<>>)
        wired == ImportConnections(connectionList, 1, built.components, <<>>)
        after == SimulateResult(built.components, wired)
    IN  /\ components' =
              IF built.threw THEN built.components
              ELSE IF simulates THEN after.components
              ELSE built.components
        /\ connections' =
              IF built.threw THEN <<>>
              ELSE IF simulates THEN after.connections
              ELSE wired
        /\ selectedComponent' = 0
        /\ Stopped
        /\ lastCall' = Call(name, IF built.threw THEN "threw" ELSE "returned")

HalfAdderCircuit ==
    Template("halfAdderCircuit", HalfAdderComponents, HalfAdderConnections, TRUE)

FullAdderCircuit ==
    Template("fullAdderCircuit", FullAdderComponents, <<>>, FALSE)

Mux2to1Circuit ==
    Template("mux2to1Circuit", Mux2to1Components, Mux2to1Connections, TRUE)

\* handleClick(event) with the event over component `ref` (0: over none).
HandleClick(ref) ==
    /\ lastCall' = Call("handleClick", "returned")
    /\ UNCHANGED runVars
    /\ IF ref # 0 /\ components[ref].type = "INPUT"
       THEN LET toggled == [components EXCEPT ![ref] = ToggleComp(@)]
                after == SimulateResult(toggled, connections)
            IN  /\ components' = after.components
                /\ connections' = after.connections
                /\ UNCHANGED selectedComponent
       ELSE /\ selectedComponent' = ref
            /\ UNCHANGED <<components, connections>>

\* ------------------------------------------------------------ unit calls

\* The component objects compute() is called on: a constructed object whose
\* pins, and whose outputs of an earlier compute(), hold any booleans.
GateObjects ==
    {[NewComponent(t, "g") EXCEPT
          !.inputs = [k \in 1..Len(@) |-> p[k]], !.output = o] :
        t \in {"AND", "OR", "XOR", "NOT"}, p \in [1..2 -> Booleans],
        o \in Booleans}

HalfAdderObjects ==
    {[NewHalfAdder("h") EXCEPT !.inputs = p, !.outputs = o] :
        p \in [1..2 -> Booleans], o \in [1..2 -> Booleans]}

FullAdderObjects ==
    {[NewFullAdder("f") EXCEPT !.inputs = p, !.outputs = o] :
        p \in [1..3 -> Booleans], o \in [1..2 -> Booleans]}

Multiplexer4to1Objects ==
    {[NewMultiplexer4to1("m") EXCEPT
          !.dataInputs = d, !.selectInputs = sel, !.output = o] :
        d \in [1..4 -> Booleans], sel \in [1..2 -> Booleans], o \in Booleans}

\* The lists of distinct input names passed to generate.
NameLists ==
    {list \in UNION {[1..n -> Names] : n \in 0..MaxNames} :
        \A j, k \in 1..Len(list) : j # k => list[j] # list[k]}

\* A compute() call on the object `before`: the object afterwards and the
\* value returned.
Computed(before, after, result) ==
    [op |-> "compute", result |-> result, before |-> before, object |-> after]

\* compute() on a gate.
Compute(c) ==
    /\ lastCall' = Computed(c, ComputeComp(c), ComputeRet(c))
    /\ UNCHANGED <<components, connections, selectedComponent, runVars>>

\* compute() on a HalfAdder.
ComputeHalfAdder(c) ==
    /\ lastCall' = Computed(c, HalfAdderCompute(c), HalfAdderCompute(c).outputs)
    /\ UNCHANGED <<components, connections, selectedComponent, runVars>>

\* compute() on a FullAdder.
ComputeFullAdder(c) ==
    /\ lastCall' = Computed(c, FullAdderCompute(c), FullAdderCompute(c).outputs)
    /\ UNCHANGED <<components, connections, selectedComponent, runVars>>

\* compute() on a Multiplexer4to1.
ComputeMultiplexer4to1(c) ==
    /\ lastCall' = Computed(c, Multiplexer4to1Compute(c),
                            Multiplexer4to1Compute(c).output)
    /\ UNCHANGED <<components, connections, selectedComponent, runVars>>

\* TruthTableGenerator.generate(inputs, outputFunction)
GenerateTable(inputs, outputFunction) ==
    /\ lastCall' = [op |-> "generate",
                    result |-> Generate(inputs, outputFunction),
                    inputs |-> inputs, outputFunction |-> outputFunction]
    /\ UNCHANGED <<components, connections, selectedComponent, runVars>>

\* -------------------------------------------------------- specifications

\* Graph editing: any sequence of addComponent, removeComponent,
\* connectComponents, selectComponent and clear, with ids that may repeat.
Next ==
    \/ \E type \in GraphTypes, id \in Ids :
          /\ AddComponent(type, id)
          /\ Len(components') <= MaxComponents
    \/ \E id \in Ids : RemoveComponent(id)
    \/ \E fromId \in Ids, toId \in Ids, fromOutput \in FromOutputs,
          toInput \in ToInputs :
          /\ ConnectComponents(fromId, fromOutput, toId, toInput)
          /\ Len(connections') <= MaxConnections
    \/ \E ref \in 0..Len(components) : SelectComponent(ref)
    \/ Clear

Spec == Init /\ [][Next]_vars

\* The ids in use.
UsedIds == {components[i].id : i \in 1..Len(components)}

SimIdSet == {SimIds[k] : k \in 1..Len(SimIds)}

\* Simulation: a circuit is built with distinct ids, its INPUTs are toggled
\* and simulate() is called, in any order.
SimNext ==
    \/ /\ Len(components) < Len(SimIds)
       /\ \E type \in SimTypes :
             AddComponent(type, SimIds[Len(components) + 1])
    \/ \E fromId \in SimIdSet, toId \in SimIdSet,
          fromOutput \in FromOutputs, toInput \in ToInputs :
          /\ ConnectComponents(fromId, fromOutput, toId, toInput)
          /\ Len(connections') <= MaxSimConnections
    \/ \E ref \in 1..Len(components) : Toggle(ref)
    \/ Simulate

SpecSim == Init /\ [][SimNext]_vars

\* The first of SimIds that no component of the graph has.
FirstUnusedId ==
    SimIds[CHOOSE k \in 1..Len(SimIds) :
              /\ SimIds[k] \notin UsedIds
              /\ \A j \in 1..(k - 1) : SimIds[j] \in UsedIds]

\* Wiring: components are added under an id not in use, connected and
\* removed, in any order.
WireNext ==
    \/ /\ SimIdSet \ UsedIds # {}
       /\ \E type \in WireTypes : AddComponent(type, FirstUnusedId)
    \/ \E fromId \in SimIdSet, toId \in SimIdSet,
          fromOutput \in FromOutputs, toInput \in WireToInputs :
          /\ ConnectComponents(fromId, fromOutput, toId, toInput)
          /\ Len(connections') <= MaxWireConnections
    \/ \E id \in SimIdSet : RemoveComponent(id)

SpecWire == Init /\ [][WireNext]_vars

\* Sessions: the graph is edited, simulated, cleared and replaced by an
\* imported circuit, in any order, with ids that may repeat.
SessionNext ==
    \/ \E type \in SessionTypes, id \in Ids :
          /\ AddComponent(type, id)
          /\ Len(components') <= MaxSessionComponents
    \/ \E fromId \in Ids, toId \in Ids, fromOutput \in FromOutputs,
          toInput \in WireToInputs :
          /\ ConnectComponents(fromId, fromOutput, toId, toInput)
          /\ Len(connections') <= MaxSessionConnections
    \/ \E id \in Ids : RemoveComponent(id)
    \/ Simulate
    \/ Clear
    \/ \E k \in 1..Len(ImportPayloads) : ImportCircuit(ImportPayloads[k])

SpecSession == Init /\ [][SessionNext]_vars

\* Acyclic circuits: components are added, each connection runs from a
\* component to one added after it (so no wiring is cyclic, while the
\* connection order is free) and simulate() is called, in any order.
DagNext ==
    \/ /\ Len(components) < Len(DagIds)
       /\ \E type \in DagTypes :
             AddComponent(type, DagIds[Len(components) + 1])
    \/ \E from \in 1..Len(components), to \in 1..Len(components),
          fromOutput \in FromOutputs, toInput \in WireToInputs :
          /\ from < to
          /\ ConnectComponents(DagIds[from], fromOutput, DagIds[to], toInput)
          /\ Len(connections') <= MaxDagConnections
    \/ Simulate

SpecDag == Init /\ [][DagNext]_vars

\* Fan-in: INPUTs and NOT gates are added, any component is connected to pin
\* 0 of any component (INPUTs included), INPUTs are toggled and simulate() is
\* called, in any order.
FanNext ==
    \/ /\ Len(components) < Len(SimIds)
       /\ \E type \in FanTypes :
             AddComponent(type, SimIds[Len(components) + 1])
    \/ \E fromId \in SimIdSet, toId \in SimIdSet,
          fromOutput \in FromOutputs, toInput \in WireToInputs :
          /\ ConnectComponents(fromId, fromOutput, toId, toInput)
          /\ Len(connections') <= MaxFanConnections
    \/ \E ref \in 1..Len(components) : Toggle(ref)
    \/ Simulate

SpecFan == Init /\ [][FanNext]_vars

\* Unit calls: compute() on component objects outside any graph and
\* TruthTableGenerator.generate, in any order.
UnitNext ==
    \/ \E c \in GateObjects : Compute(c)
    \/ \E c \in HalfAdderObjects : ComputeHalfAdder(c)
    \/ \E c \in FullAdderObjects : ComputeFullAdder(c)
    \/ \E c \in Multiplexer4to1Objects : ComputeMultiplexer4to1(c)
    \/ \E inputs \in NameLists, outputFunction \in OutputFunctions :
          GenerateTable(inputs, outputFunction)

SpecUnit == Init /\ [][UnitNext]_vars

\* Round trips: a circuit is built with each connection running from a
\* component to one added after it, INPUTs are toggled, simulate() is called
\* and the circuit is exported and the exported object imported again, in
\* any order.
RoundNext ==
    \/ /\ Len(components) < Len(SimIds)
       /\ \E type \in RoundTypes :
             AddComponent(type, SimIds[Len(components) + 1])
    \/ \E from \in 1..Len(components), to \in 1..Len(components),
          fromOutput \in FromOutputs, toInput \in WireToInputs :
          /\ from < to
          /\ ConnectComponents(SimIds[from], fromOutput, SimIds[to], toInput)
          /\ Len(connections') <= MaxRoundConnections
    \/ \E ref \in 1..Len(components) : Toggle(ref)
    \/ Simulate
    \/ ExportCircuit
    \/ /\ lastCall.op = "exportCircuit"
       /\ ImportCircuit(lastCall.result)

SpecRound == Init /\ [][RoundNext]_vars

\* Templates: the three CircuitTemplates methods are called, the canvas is
\* clicked and simulate() is called, in any order.
TemplateNext ==
    \/ HalfAdderCircuit
    \/ FullAdderCircuit
    \/ Mux2to1Circuit
    \/ \E ref \in 0..Len(components) : HandleClick(ref)
    \/ Simulate

SpecTemplate == Init /\ [][TemplateNext]_vars

\* Animation: NOT gates are added and wired, the animation is started and
\* stopped, the graph is cleared and the browser runs pending animation
\* frames, in any order.
AnimationNext ==
    \/ /\ Len(components) < MaxAnimationComponents
       /\ AddComponent("NOT", SimIds[Len(components) + 1])
    \/ \E from \in 1..Len(components), to \in 1..Len(components),
          fromOutput \in FromOutputs, toInput \in WireToInputs :
          /\ ConnectComponents(SimIds[from], fromOutput, SimIds[to], toInput)
          /\ Len(connections') <= MaxAnimationConnections
    \/ StartAnimation
    \/ StopAnimation
    \/ Clear
    \/ \E handle \in pendingFrames : AnimationFrame(handle)

SpecAnimation == Init /\ [][AnimationNext]_vars

\* Sorting: NOT gates are added and wired in any way, cycles and self-loops
\* included, and topologicalSort() and simulate() are called; a running
\* topologicalSort() reaches its end before anything else happens.
SortNext ==
    \/ /\ ~sorting.active
       /\ Len(components) < MaxSortComponents
       /\ AddComponent("NOT", SimIds[Len(components) + 1])
    \/ /\ ~sorting.active
       /\ \E fromId \in SimIdSet, toId \in SimIdSet,
             fromOutput \in FromOutputs, toInput \in WireToInputs :
             /\ ConnectComponents(fromId, fromOutput, toId, toInput)
             /\ Len(connections') <= MaxSortConnections
    \/ StartSort
    \/ SortStep
    \/ /\ ~sorting.active
       /\ Simulate

SpecSort == Init /\ [][SortNext]_vars /\ WF_vars(SortStep)

\* ------------------------------------------------------ graph predicates

\* No two components of the list share an id.
UniqueIds(comps) ==
    \A i, j \in 1..Len(comps) : i # j => comps[i].id # comps[j].id

\* The pairs <<from, to>> of component references joined by a connection.
Edges(conns) == {<<conns[k].from, conns[k].to>> : k \in 1..Len(conns)}

\* R together with the pairs joined by two steps of R.
Compose(R) ==
    R \cup {<<pq[1][1], pq[2][2]>> : pq \in {x \in R \X R : x[1][2] = x[2][1]}}

\* The pairs joined by a path of at most 2^n steps of R.
RECURSIVE Closure(_, _)
Closure(R, n) == IF n = 0 THEN R ELSE Closure(Compose(R), n - 1)

\* Some component feeds itself through one or more connections.
HasCycle(comps, conns) ==
    \E ref \in 1..Len(comps) : <<ref, ref>> \in Closure(Edges(conns), Len(comps))

\* Where the reference `ref` stands in the sequence `sorted` (0: nowhere).
Position(sorted, ref) ==
    IF \E k \in 1..Len(sorted) : sorted[k] = ref
    THEN CHOOSE k \in 1..Len(sorted) : sorted[k] = ref
    ELSE 0

\* The number of input pins of a component type (spec section 4.1).
Arity(type) ==
    CASE type \in {"AND", "OR", "XOR"} -> 2
      [] type \in {"NOT", "OUTPUT"} -> 1
      [] OTHER -> 0

\* Every connection targets an input pin its target component has.
InRange(comps, conns) ==
    \A k \in 1..Len(conns) : conns[k].toInput < Arity(comps[conns[k].to].type)

\* What a component currently presents at its output: a gate's output, an
\* INPUT's or OUTPUT's value.
CurrentOutput(c) == IF IsGate(c) THEN c.output ELSE c.value

Outputs(comps) == [k \in 1..Len(comps) |-> CurrentOutput(comps[k])]

\* The connections, by position, that target pin `pin` of component `ref`.
Drivers(conns, ref, pin) ==
    {k \in 1..Len(conns) : conns[k].to = ref /\ conns[k].toInput = pin}

\* The value wired to pin `pin` of component `ref`: the current output of the
\* source of the latest connection into the pin, the stored pin value when
\* nothing is connected to it.
Wired(comps, conns, ref, pin) ==
    LET d == Drivers(conns, ref, pin)
    IN  IF d = {}
        THEN ArrayGet(comps[ref].inputs, pin)
        ELSE LET last == CHOOSE k \in d : \A j \in d : j <= k
             IN  CurrentOutput(comps[conns[last].from])

\* The truth-table value of a gate of type `type` on pin values in0, in1.
Table(type, in0, in1) ==
    CASE type = "AND" -> JsBool(in0 = "true" /\ in1 = "true")
      [] type = "OR" -> JsBool(in0 = "true" \/ in1 = "true")
      [] type = "XOR" -> JsBool(in0 # in1)
      [] type = "NOT" -> JsBool(in0 # "true")

\* ------------------------------------------------- settling circuits

\* The browser runs a pending animation-frame request.
RunFrame == \E handle \in pendingFrames : AnimationFrame(handle)

\* Settling: a circuit without cycles is built, with its connections made in
\* any order, its INPUTs toggled and simulate() called any number of times;
\* then the animation is started and the browser runs every frame it is
\* asked for, nothing else touching the circuit.
SettleNext ==
    \/ /\ ~isSimulating
       /\ Len(components) < Len(SimIds)
       /\ \E type \in SettleTypes :
             AddComponent(type, SimIds[Len(components) + 1])
    \/ /\ ~isSimulating
       /\ \E from \in 1..Len(components), to \in 1..Len(components),
             fromOutput \in FromOutputs, toInput \in WireToInputs :
             /\ ConnectComponents(SimIds[from], fromOutput, SimIds[to], toInput)
             /\ Len(connections') <= MaxSettleConnections
             /\ ~HasCycle(components', connections')
    \/ /\ ~isSimulating
       /\ \E ref \in 1..Len(components) : Toggle(ref)
    \/ /\ ~isSimulating
       /\ Simulate
    \/ StartAnimation
    \/ RunFrame

\* The browser runs every request it holds: a request does not stay pending
\* for ever. This is WF_vars(RunFrame) with ENABLED <<RunFrame>>_vars
\* written out: a pending request can always be run, and running it changes
\* the set of pending requests.
FramesRun == []<>(pendingFrames = {}) \/ []<><<RunFrame>>_vars

SpecSettle == Init /\ [][SettleNext]_vars /\ FramesRun

\* ------------------------------------------------------------- the claims

\* C1: for an acyclic circuit, a second simulate() right after a first one
\* leaves every component's output as the first call left it.
C1_SimulateIdempotent ==
    (lastCall.op = "simulate" /\ ~HasCycle(components, connections))
        => Outputs(SimulateResult(components, connections).components)
             = Outputs(components)

\* C2: for an acyclic circuit with distinct ids and in-range pin indices, one
\* simulate() leaves every gate's output equal to its rule applied to the
\* current outputs of the components wired to its pins.
C2_ConsistentSnapshot ==
    (/\ lastCall.op = "simulate"
     /\ ~HasCycle(components, connections)
     /\ UniqueIds(components)
     /\ InRange(components, connections))
        => \A ref \in 1..Len(components) :
              IsGate(components[ref]) =>
                 components[ref].output =
                    Table(components[ref].type,
                          Wired(components, connections, ref, 0),
                          Wired(components, connections, ref, 1))

\* The chain INPUT(a) -> NOT(b) -> NOT(c) as built, before any simulate(),
\* with the value `v` on the INPUT.
FreshChain(v) ==
    /\ components = <<[NewComponent("INPUT", "a") EXCEPT !.value = v],
                      NewComponent("NOT", "b"), NewComponent("NOT", "c")>>
    /\ connections = <<[from |-> 1, fromId |-> "a", fromOutput |-> 0,
                        to |-> 2, toId |-> "b", toInput |-> 0, value |-> "false"],
                       [from |-> 2, fromId |-> "b", fromOutput |-> 0,
                        to |-> 3, toId |-> "c", toInput |-> 0, value |-> "false"]>>

\* C3: on the freshly built chain INPUT(a) -> NOT(b) -> NOT(c), for either
\* value of a, a single simulate() leaves b.output = NOT a and c.output = a.
C3_ChainOnePass ==
    [][\A v \in {"false", "true"} :
          (FreshChain(v) /\ Simulate)
             => (/\ components'[2].output = JsNot(v)
                 /\ components'[3].output = v)]_vars

\* C4: for an acyclic graph with distinct ids, topologicalSort() returns every
\* component exactly once, each after every component that feeds it.
C4_TopologicalOrder ==
    (~HasCycle(components, connections) /\ UniqueIds(components))
        => LET sorted == TopologicalSort(components, connections)
           IN  /\ Len(sorted) = Len(components)
               /\ \A ref \in 1..Len(components) : Position(sorted, ref) # 0
               /\ \A k \in 1..Len(connections) :
                     Position(sorted, connections[k].from)
                        < Position(sorted, connections[k].to)

\* C4 witness: an acyclic graph whose insertion order is not a dependency
\* order, so that the sort has to move a component.
C4_Witness ==
    /\ ~HasCycle(components, connections)
    /\ UniqueIds(components)
    /\ Len(components) = 3
    /\ Len(connections) >= 2
    /\ \E k \in 1..Len(connections) : connections[k].from > connections[k].to
    /\ TopologicalSort(components, connections) # <<1, 2, 3>>

\* C5: on a graph with a cycle (a self-loop included) simulate() raises a
\* cycle-detected error and changes no component and no connection.
C5_CycleRejected ==
    [][(HasCycle(components, connections) /\ Simulate)
          => (/\ lastCall'.result = "CycleDetectedError"
              /\ UNCHANGED <<components, connections>>)]_vars

\* C6: no two components of the graph ever share an id.
C6_NoDuplicateIds == UniqueIds(components)

\* The variant set of spec section 4.1.
VariantSet ==
    {"AND", "OR", "XOR", "NOT", "INPUT", "OUTPUT",
     "HALF_ADDER", "FULL_ADDER", "MUX_4TO1"}

\* C7: addComponent with a type outside the variant set throws and leaves the
\* component list, the connection list and the selection as they were.
C7_UnknownTypeRejected ==
    [][\A type \in GraphTypes, id \in Ids :
          (/\ lastCall'.op = "addComponent"
           /\ ToUpperCase(type) \notin VariantSet
           /\ AddComponent(type, id))
             => (/\ lastCall'.result = "threw"
                 /\ UNCHANGED <<components, connections, selectedComponent>>)]_vars

\* C7 witness: addComponent has thrown on a graph that holds components,
\* connections and a selection.
C7_Witness ==
    /\ lastCall = Call("addComponent", "threw")
    /\ Len(components) >= 2
    /\ Len(connections) >= 1
    /\ selectedComponent # 0

\* C8: after removeComponent(id) no connection has from.id or to.id equal to
\* id, and the connections that touched id at neither end are all still
\* there, in their original order.
C8_CascadeDelete ==
    [][\A id \in Ids :
          (lastCall'.op = "removeComponent" /\ RemoveComponent(id))
             => LET index == FindIndex(components, id)
                    untouched == SelectSeq(connections,
                                    LAMBDA conn : conn.fromId # id /\ conn.toId # id)
                IN  /\ \A k \in 1..Len(connections') :
                          /\ connections'[k].fromId # id
                          /\ connections'[k].toId # id
                    /\ Len(connections') = Len(untouched)
                    /\ \A k \in 1..Len(untouched) :
                          connections'[k] =
                             IF index = 0 THEN untouched[k]
                             ELSE ShiftConnection(untouched[k], index)]_vars

\* C8 witness: removeComponent has run and left two different connections.
C8_Witness ==
    /\ lastCall.op = "removeComponent"
    /\ Len(components) < MaxComponents
    /\ Len(connections) = 2
    /\ connections[1] # connections[2]
    /\ \E id \in Ids : FindIndex(components, id) = 0

\* C9: removeComponent(id) with an absent id changes nothing; removing the
\* selected component leaves the selection null; removing a component while
\* another one is selected keeps that selection.
C9_RemoveSelection ==
    [][\A id \in Ids :
          (lastCall'.op = "removeComponent" /\ RemoveComponent(id))
             => LET index == FindIndex(components, id)
                IN  /\ index = 0 =>
                          UNCHANGED <<components, connections, selectedComponent>>
                    /\ (index # 0 /\ selectedComponent = index) =>
                          selectedComponent' = 0
                    /\ (index # 0 /\ selectedComponent \notin {0, index}) =>
                          selectedComponent' = Shift(selectedComponent, index)]_vars

\* C10: connectComponents with an id that is not in the graph returns null
\* and leaves both lists alone; with both ids in the graph it appends exactly
\* one connection, joining the two components, at the end of the list.
C10_ConnectChecked ==
    [][\A fromId \in Ids, toId \in Ids, fromOutput \in FromOutputs,
          toInput \in ToInputs :
          (/\ lastCall'.op = "connectComponents"
           /\ ConnectComponents(fromId, fromOutput, toId, toInput))
             => IF /\ \E i \in 1..Len(components) : components[i].id = fromId
                   /\ \E i \in 1..Len(components) : components[i].id = toId
                THEN /\ Len(connections') = Len(connections) + 1
                     /\ SubSeq(connections', 1, Len(connections)) = connections
                     /\ connections'[Len(connections')].fromId = fromId
                     /\ connections'[Len(connections')].toId = toId
                     /\ connections'[Len(connections')].fromOutput = fromOutput
                     /\ connections'[Len(connections')].toInput = toInput
                     /\ components' = components
                     /\ lastCall'.result = "returned"
                ELSE /\ lastCall'.result = "null"
                     /\ UNCHANGED <<components, connections>>]_vars

\* C10 witness: connectComponents has returned null on a graph that holds
\* components and connections.
C10_Witness ==
    /\ lastCall = Call("connectComponents", "null")
    /\ Len(components) >= 1
    /\ Len(connections) >= 1

\* The connection's two endpoints are objects of the component list.
EndpointsHeld(comps, conn) ==
    /\ conn.from \in 1..Len(comps)
    /\ conn.to \in 1..Len(comps)
    /\ comps[conn.from].id = conn.fromId
    /\ comps[conn.to].id = conn.toId

\* C11: in every state reached by addComponent, connectComponents,
\* removeComponent, simulate, clear and importCircuit, both endpoints of
\* every connection are components held in the component list.
C11_EndpointsInGraph ==
    \A k \in 1..Len(connections) : EndpointsHeld(components, connections[k])

\* A removal has happened and a connection between the remaining components
\* is still in the graph.
C11_Witness ==
    /\ lastCall.op = "removeComponent"
    /\ Len(components) = 1
    /\ Len(connections) >= 1

\* C12: the number of input slots of a gate is the one its constructor set:
\* 2 for AND / OR / XOR, 1 for NOT, whatever toInput indices were connected
\* and simulated.
C12_InputSlotsFixed ==
    \A k \in 1..Len(components) :
        IsGate(components[k]) =>
            Len(components[k].inputs) = Arity(components[k].type)

\* The latest connection, in insertion order, of a non-empty set of
\* connection positions.
Latest(d) == CHOOSE k \in d : \A j \in d : j <= k

\* C13: after simulate(), an input pin that one or more connections target
\* holds the value carried by the latest of them in insertion order.
C13_LastWriteWins ==
    lastCall.op = "simulate" =>
        \A ref \in 1..Len(components), pin \in ToInputs :
            LET d == Drivers(connections, ref, pin)
            IN  (components[ref].type # "OUTPUT" /\ d # {}) =>
                    ArrayGet(components[ref].inputs, pin) =
                        connections[Latest(d)].value

\* simulate() has run on a pin targeted by two connections that carry
\* different values.
C13_Witness ==
    /\ lastCall.op = "simulate"
    /\ \E ref \in 1..Len(components), pin \in ToInputs :
          \E j, k \in Drivers(connections, ref, pin) :
              /\ j < k
              /\ connections[j].value # connections[k].value
              /\ components[ref].type # "OUTPUT"

\* The connection joins the same pins of the same components.
SameWire(c1, c2) ==
    /\ c1.from = c2.from
    /\ c1.fromId = c2.fromId
    /\ c1.fromOutput = c2.fromOutput
    /\ c1.to = c2.to
    /\ c1.toId = c2.toId
    /\ c1.toInput = c2.toInput

\* C14: simulate() leaves the value of every INPUT component as it was, also
\* of an INPUT that a connection targets, and leaves the component list and
\* the connection list with the same members in the same order.
C14_SimulateFrame ==
    [][lastCall'.op = "simulate" /\ Simulate =>
        /\ Len(components') = Len(components)
        /\ \A k \in 1..Len(components) :
              /\ components'[k].id = components[k].id
              /\ components'[k].type = components[k].type
              /\ components[k].type = "INPUT" =>
                    components'[k].value = components[k].value
        /\ Len(connections') = Len(connections)
        /\ \A k \in 1..Len(connections) :
              SameWire(connections'[k], connections[k])]_vars

\* simulate() has run with a connection into an INPUT component that
\* carries another value than the INPUT holds.
C14_Witness ==
    /\ lastCall.op = "simulate"
    /\ \E k \in 1..Len(connections) :
          /\ components[connections[k].to].type = "INPUT"
          /\ connections[k].value # components[connections[k].to].value

\* C15: after simulate() on a circuit without cycles, the value cached in
\* every connection whose source is an INPUT or a gate is the current output
\* of that source.
C15_CachedValueCurrent ==
    (lastCall.op = "simulate" /\ ~HasCycle(components, connections)) =>
        \A k \in 1..Len(connections) :
            components[connections[k].from].type # "OUTPUT" =>
                connections[k].value =
                    CurrentOutput(components[connections[k].from])

\* The connections, by position, that target component `ref`.
Feeding(conns, ref) == {k \in 1..Len(conns) : conns[k].to = ref}

\* C16: after simulate() on a circuit without cycles, an OUTPUT component
\* driven by a single connection from an INPUT or a gate holds the current
\* output of that source as its value.
C16_OutputPassthrough ==
    (lastCall.op = "simulate" /\ ~HasCycle(components, connections)) =>
        \A ref \in 1..Len(components) :
            \A k \in Feeding(connections, ref) :
                (/\ components[ref].type = "OUTPUT"
                 /\ Feeding(connections, ref) = {k}
                 /\ components[connections[k].from].type # "OUTPUT") =>
                    components[ref].value =
                        CurrentOutput(components[connections[k].from])

\* C17: compute() of an AND, OR, XOR or NOT gate returns the truth-table
\* value of its boolean pins, stores it as the gate's output and leaves the
\* pins as they were.
C17_GateCompute ==
    (lastCall.op = "compute" /\ IsGate(lastCall.before)) =>
        /\ lastCall.result =
              Table(lastCall.before.type, ArrayGet(lastCall.before.inputs, 0),
                    ArrayGet(lastCall.before.inputs, 1))
        /\ lastCall.object.output = lastCall.result
        /\ lastCall.object.inputs = lastCall.before.inputs

\* compute() has turned the output of an XOR gate with pins (true, false)
\* from false to true.
C17_Witness ==
    /\ lastCall.op = "compute"
    /\ lastCall.before.type = "XOR"
    /\ lastCall.before.inputs = <<"true", "false">>
    /\ lastCall.before.output = "false"
    /\ lastCall.object.output = "true"

\* The number of pins of the sequence that hold true.
Ones(pins) == Cardinality({k \in 1..Len(pins) : pins[k] = "true"})

\* C18: HalfAdder.compute() yields Sum = A XOR B and Carry = A AND B;
\* FullAdder.compute() yields Sum = A XOR B XOR Cin and Cout = 1 exactly
\* when at least two of A, B, Cin are 1.
C18_AdderCompute ==
    /\ (lastCall.op = "compute" /\ lastCall.before.type = "HALF_ADDER") =>
          /\ lastCall.object.outputs =
                <<JsBool(Ones(lastCall.before.inputs) = 1),
                  JsBool(Ones(lastCall.before.inputs) = 2)>>
          /\ lastCall.result = lastCall.object.outputs
    /\ (lastCall.op = "compute" /\ lastCall.before.type = "FULL_ADDER") =>
          /\ lastCall.object.outputs =
                <<JsBool(Ones(lastCall.before.inputs) \in {1, 3}),
                  JsBool(Ones(lastCall.before.inputs) >= 2)>>
          /\ lastCall.result = lastCall.object.outputs

\* FullAdder.compute() has run on (A, B, Cin) = (1, 0, 1): Sum 0, Cout 1.
C18_Witness ==
    /\ lastCall.op = "compute"
    /\ lastCall.before.type = "FULL_ADDER"
    /\ lastCall.before.inputs = <<"true", "false", "true">>
    /\ lastCall.object.outputs = <<"false", "true">>

\* C19: Multiplexer4to1.compute() sets the output to the data input selected
\* by select1 * 2 + select0, select input 1 being the high bit.
C19_MuxCompute ==
    (lastCall.op = "compute" /\ lastCall.before.type = "MUX_4TO1") =>
        LET select0 == lastCall.before.selectInputs[1]
            select1 == lastCall.before.selectInputs[2]
            chosen == CASE select1 = "false" /\ select0 = "false" -> 1
                        [] select1 = "false" /\ select0 = "true" -> 2
                        [] select1 = "true" /\ select0 = "false" -> 3
                        [] select1 = "true" /\ select0 = "true" -> 4
        IN  /\ lastCall.object.output = lastCall.before.dataInputs[chosen]
            /\ lastCall.result = lastCall.object.output
            /\ lastCall.object.dataInputs = lastCall.before.dataInputs
            /\ lastCall.object.selectInputs = lastCall.before.selectInputs

\* Multiplexer4to1.compute() has run with select (S1, S0) = (1, 0) on the
\* data inputs [0, 0, 1, 0] and set the output to 1.
C19_Witness ==
    /\ lastCall.op = "compute"
    /\ lastCall.before.type = "MUX_4TO1"
    /\ lastCall.before.selectInputs = <<"false", "true">>
    /\ lastCall.before.dataInputs = <<"false", "false", "true", "false">>
    /\ lastCall.before.output = "false"
    /\ lastCall.object.output = "true"

\* What the output function named `outputFunction` yields on the bits of
\* i, most significant first, for i < 2^n: "value" yields i, "and" yields 1
\* on the all-ones row only.
Expected(outputFunction, n, i) ==
    IF outputFunction = "value" THEN i
    ELSE IF i = 2 ^ n - 1 THEN 1 ELSE 0

\* The table generate returns for the n names `inputs` is the truth table:
\* 2^n rows, row i giving inputs[index] bit (n - 1 - index) of i, no two
\* rows with the same assignment, the output field holding the function's
\* result on the row's values in name order.
IsTruthTable(table, inputs, outputFunction) ==
    LET n == Len(inputs)
    IN  /\ Len(table) = 2 ^ n
        /\ \A r \in 1..Len(table), index \in 0..(n - 1) :
              table[r][inputs[index + 1]] =
                  ((r - 1) \div (2 ^ (n - 1 - index))) % 2
        /\ \A r1, r2 \in 1..Len(table) :
              r1 # r2 =>
                  \E k \in 1..n : table[r1][inputs[k]] # table[r2][inputs[k]]
        /\ outputFunction # "undefined" =>
              \A r \in 1..Len(table) :
                  table[r]["output"] = Expected(outputFunction, n, r - 1)

\* C20: generate(inputNames, outputFn) with distinct input names returns the
\* truth table: 2^N rows in ascending binary order, the first name the most
\* significant bit, each row's output field the function's result.
C20_TruthTable ==
    lastCall.op = "generate" =>
        IsTruthTable(lastCall.result, lastCall.inputs, lastCall.outputFunction)

\* C20 amended: generate(inputNames, outputFn) with distinct input names,
\* none of which is "output", returns the truth table: 2^N rows in ascending
\* binary order, the first name the most significant bit, each row's output
\* field the function's result when a function is passed.
C20_TruthTableNoOutputName ==
    (/\ lastCall.op = "generate"
     /\ \A k \in 1..Len(lastCall.inputs) : lastCall.inputs[k] # "output") =>
        IsTruthTable(lastCall.result, lastCall.inputs, lastCall.outputFunction)

\* generate has returned the 8 rows of three names other than "output",
\* with the output of the and function on the last row only.
C20_Witness ==
    /\ lastCall.op = "generate"
    /\ Len(lastCall.inputs) = 3
    /\ \A k \in 1..3 : lastCall.inputs[k] # "output"
    /\ lastCall.outputFunction = "and"
    /\ Len(lastCall.result) = 8
    /\ lastCall.result[8]["output"] = 1
    /\ lastCall.result[7]["output"] = 0

\* C22: when importCircuit returns, an evaluation pass has run: every
\* connection from an INPUT carries the imported value of that INPUT.
C22_ImportEvaluates ==
    (lastCall.op = "importCircuit" /\ lastCall.result = "returned") =>
        \A k \in 1..Len(connections) :
            components[connections[k].from].type = "INPUT" =>
                connections[k].value = components[connections[k].from].value

\* The ids of the components the circuit description lists.
ListedIds(circuitData) ==
    {circuitData.components[k].id : k \in 1..Len(circuitData.components)}

\* The circuit description is malformed: a connection names an id that is
\* not listed, a gate's input array has another length than the gate has
\* pins, or a component's type is not of the variant set.
Malformed(circuitData) ==
    \/ \E k \in 1..Len(circuitData.connections) :
          \/ circuitData.connections[k].from \notin ListedIds(circuitData)
          \/ circuitData.connections[k].to \notin ListedIds(circuitData)
    \/ \E k \in 1..Len(circuitData.components) :
          LET compData == circuitData.components[k]
              t == ToUpperCase(compData.type)
          IN  \/ t \notin VariantSet
              \/ /\ t \in {"AND", "OR", "XOR", "NOT"}
                 /\ "value" \in DOMAIN compData
                 /\ "array" \in DOMAIN compData.value
                 /\ Len(compData.value.array) # Arity(t)

\* C23: importCircuit with a malformed circuit description is rejected and
\* leaves the graph empty.
C23_MalformedImportRejected ==
    [][\A k \in 1..Len(ImportPayloads) :
          (/\ lastCall'.op = "importCircuit"
           /\ ImportCircuit(ImportPayloads[k])
           /\ Malformed(ImportPayloads[k])) =>
              /\ lastCall'.result = "threw"
              /\ components' = <<>>
              /\ connections' = <<>>]_vars

\* The circuit is valid and acyclic: distinct ids, no cycle, every connection
\* runs from an INPUT or a gate to an existing pin of a gate or an OUTPUT,
\* and no pin has two drivers.
ValidCircuit(comps, conns) ==
    /\ UniqueIds(comps)
    /\ ~HasCycle(comps, conns)
    /\ InRange(comps, conns)
    /\ \A k \in 1..Len(conns) :
          /\ comps[conns[k].from].type # "OUTPUT"
          /\ comps[conns[k].to].type # "INPUT"
          /\ Drivers(conns, conns[k].to, conns[k].toInput) = {k}

\* C21: for a valid acyclic circuit, simulate() after
\* importCircuit(exportCircuit()) leaves every component with the output,
\* and every INPUT with the value, that simulate() leaves in the original.
C21_RoundTrip ==
    [][(/\ lastCall.op = "exportCircuit"
        /\ lastCall'.op = "importCircuit"
        /\ ImportCircuit(lastCall.result)
        /\ ValidCircuit(components, connections)) =>
           LET original == SimulateResult(components, connections).components
               imported == SimulateResult(components', connections').components
           IN  /\ Len(imported) = Len(original)
               /\ \A k \in 1..Len(original) :
                     CurrentOutput(imported[k]) = CurrentOutput(original[k])]_vars

\* C24: exportCircuit() lists every component with its id, its type and, as
\* value, its current output or state as a boolean, and every connection as
\* its four-tuple, in insertion order.
C24_ExportFaithful ==
    lastCall.op = "exportCircuit" =>
        LET data == lastCall.result
        IN  /\ Len(data.components) = Len(components)
            /\ \A k \in 1..Len(components) :
                  /\ data.components[k].id = components[k].id
                  /\ data.components[k].type = components[k].type
                  /\ "bool" \in DOMAIN data.components[k].value
                  /\ data.components[k].value.bool =
                        CurrentOutput(components[k])
            /\ Len(data.connections) = Len(connections)
            /\ \A k \in 1..Len(connections) :
                  /\ data.connections[k].from = connections[k].fromId
                  /\ data.connections[k].fromOutput = connections[k].fromOutput
                  /\ data.connections[k].to = connections[k].toId
                  /\ data.connections[k].toInput = connections[k].toInput

\* C25: toggle() on an INPUT flips its value and returns the new value,
\* leaves every other component and every connection as it was, and a second
\* toggle() would restore the value the INPUT had.
C25_ToggleInvolution ==
    [][\A ref \in 1..Len(components) :
          (lastCall'.op = "toggle" /\ Toggle(ref)) =>
              /\ components'[ref].value # components[ref].value
              /\ lastCall'.result = components'[ref].value
              /\ ToggleComp(components'[ref]).value = components[ref].value
              /\ \A k \in 1..Len(components) :
                    k # ref => components'[k] = components[k]
              /\ Len(components') = Len(components)
              /\ connections' = connections]_vars

\* The number of components of the graph that have type `type`.
CountOfType(type) ==
    Cardinality({k \in 1..Len(components) : components[k].type = type})

\* C26: a call of CircuitTemplates.fullAdderCircuit completes, addComponent
\* having created the composite FULL_ADDER component, and leaves a graph of
\* three INPUTs, one FULL_ADDER and two OUTPUTs.
C26_FullAdderTemplateCompletes ==
    lastCall.op = "fullAdderCircuit" =>
        /\ lastCall.result = "returned"
        /\ Len(components) = 6
        /\ CountOfType("INPUT") = 3
        /\ CountOfType("FULL_ADDER") = 1
        /\ CountOfType("OUTPUT") = 2

\* The graph is the one mux2to1Circuit builds.
IsMux2to1 ==
    /\ Len(components) = Len(Mux2to1Components)
    /\ \A k \in 1..Len(components) :
          /\ components[k].id = Mux2to1Components[k].id
          /\ components[k].type = Mux2to1Components[k].type

ValueOf(id) == components[FindIndex(components, id)].value

\* C30: in the circuit built by mux2to1Circuit, after the template's own
\* simulate() and after every click, the OUTPUT Y shows D1 when S is true
\* and D0 when S is false.
C30_MuxSelects ==
    IsMux2to1 =>
        ValueOf("output_y") =
            IF ValueOf("input_s") = "true" THEN ValueOf("input_d1")
            ELSE ValueOf("input_d0")

\* A click has left S true, D1 true and D0 false, and Y shows true.
C30_Witness ==
    /\ IsMux2to1
    /\ lastCall.op = "handleClick"
    /\ ValueOf("input_s") = "true"
    /\ ValueOf("input_d1") = "true"
    /\ ValueOf("input_d0") = "false"
    /\ ValueOf("output_y") = "true"

\* The components with a call of visit active, innermost last.
Visiting == [k \in 1..Len(sorting.stack) |-> sorting.stack[k].ref]

NoRepeats(seq) ==
    \A i \in 1..Len(seq), j \in 1..Len(seq) : seq[i] = seq[j] => i = j

\* Some connection closes a cycle or a self-loop.
Cyclic == HasCycle(components, connections)

\* No component is entered twice by one topologicalSort(): the active
\* visits and the result list together name each component at most once,
\* and each of them has its id in visited.
C27_VisitedOnce ==
    /\ NoRepeats(Visiting \o sorting.result)
    /\ \A k \in 1..Len(Visiting) : IdOf(components, Visiting[k]) \in sorting.visited
    /\ lastCall.op = "topologicalSort" =>
          /\ NoRepeats(lastCall.result)
          /\ lastCall.result = TopologicalSort(components, connections)

\* C27: topologicalSort() and simulate() terminate on every finite graph,
\* cycles and self-loops included: a running call always returns, and no
\* component is visited twice because visit marks it on entry.
C27_SortTerminates ==
    /\ [](C27_VisitedOnce)
    /\ (sorting.active ~> ~sorting.active)

\* A topologicalSort() has returned every component of a graph with a cycle.
C27_Witness ==
    /\ Cyclic
    /\ Len(components) = MaxSortComponents
    /\ ~sorting.active
    /\ lastCall.op = "topologicalSort"
    /\ Len(lastCall.result) = Len(components)

\* At most one animation-frame request is pending, it is the one the
\* simulator holds, and none is pending while the animation is stopped.
C29_PendingFrames ==
    /\ Cardinality(pendingFrames) <= 1
    /\ pendingFrames \subseteq {animationFrame}
    /\ ~isSimulating => pendingFrames = {}

\* A startAnimation() while simulating schedules nothing and simulates
\* nothing, and a callback calls simulate() only while simulating.
C29_Calls ==
    /\ (isSimulating /\ lastCall'.op = "startAnimation") =>
           UNCHANGED <<components, connections, runVars>>
    /\ lastCall' = Call("animate", "simulated") => isSimulating

\* C29: under any interleaving of startAnimation(), stopAnimation(), clear()
\* and animation-frame callbacks, at most one callback is pending at any
\* time, startAnimation() while simulating schedules nothing, and after
\* stopAnimation() or clear() no callback calls simulate() until
\* startAnimation() is called again.
C29_OnePendingFrame == [](C29_PendingFrames) /\ [][C29_Calls]_vars

\* A callback has run simulate() on a wired graph and requested the next
\* frame, which is the only one pending.
C29_Witness ==
    /\ lastCall = Call("animate", "simulated")
    /\ connections # <<>>
    /\ isSimulating
    /\ pendingFrames = {animationFrame}
    /\ animationFrame # 0

\* A further simulate() leaves every component and every connection as it is.
Settled ==
    SimulateResult(components, connections) =
        [components |-> components, connections |-> connections]

\* The pins of component `ref` with each connected pin replaced by the
\* current output of the component feeding it.
WiredInputs(ref) ==
    [i \in 1..Len(components[ref].inputs) |->
        Wired(components, connections, ref, i - 1)]

\* Every gate's output is its rule applied to the outputs of the components
\* feeding it, and every driven OUTPUT shows its driver's output.
Consistent ==
    \A ref \in 1..Len(components) :
        /\ IsGate(components[ref]) =>
               components[ref].output =
                   Rule([components[ref] EXCEPT !.inputs = WiredInputs(ref)])
        /\ (components[ref].type = "OUTPUT"
                /\ Drivers(connections, ref, 0) # {}) =>
               components[ref].value = Wired(components, connections, ref, 0)

====
